---- MODULE Spec2Model ----
(***************************************************************************)
(* Model of the arcane-agent communication and task-execution engine.     *)
(*                                                                         *)
(* Three programs of the repository are modelled, each under its own      *)
(* specification:                                                          *)
(*   SpecWS    - WebSocketClient (internal/agent/websocket_client.go)      *)
(*   SpecAgent - the websocket Agent (internal/agent/agent.go, 79-606)     *)
(*   SpecHTTP  - Agent + HTTPClient (agent.go 1-78, http_client.go and     *)
(*               its later revision, unnamed/part_003)                     *)
(* Goroutines are processes with a program counter pc[g]; every access to  *)
(* a shared field is one atomic step.                                      *)
(***************************************************************************)
EXTENDS Naturals, Integers, Sequences, FiniteSets, TLC

\* ----------------------------------------------------------------- bounds
MaxHandles == 2   \* connection handles a run may dial successfully
MaxTasks   == 1   \* tasks a run may dispatch
MaxStops   == 2   \* calls of Agent.Stop a run may make, each from its own caller
MaxEvents  == 2   \* events the environment may cause in a run: a failed dial,
                  \* an inbound frame, a heartbeat tick, a failed read or
                  \* write on an open handle, the cancellation of the context

VARIABLES
  pc,           \* program counter of every goroutine
  sconn,        \* the local `conn` a goroutine copied from the shared field
  wsConn,       \* WebSocketClient.conn (0 is nil)
  wsConnected,  \* WebSocketClient.connected
  reconnectCh,  \* number of signals buffered in WebSocketClient.reconnectCh
  stopCh,       \* TRUE once WebSocketClient.stopCh is closed
  ctxDone,      \* TRUE once the context passed to Start is cancelled
  timers,       \* pending time.AfterFunc callbacks of reconnectLoop
  opened,       \* number of handles dialled so far; handle ids are 1..opened
  closedH,      \* handles on which the agent called Close
  events,       \* how many environment events of each kind so far
  task,         \* the task each task goroutine runs, and its outcome
  wire,         \* frames written to a handle
  crashed,      \* TRUE once an unrecovered panic ended the process
  agConn,       \* Agent.conn of the websocket Agent (0 is nil)
  agCtxDone,    \* TRUE once Agent.ctx is cancelled (Agent.cancel was called)
  connCancelled,\* the connections whose connCtx was cancelled by connCancel
  attempts,     \* reconnectAttempts of Agent.Start
  httpVer,      \* which HTTPClient runs: 1 http_client.go, 2 its later version
  registered,   \* TRUE once the registration request returned success
  shutdown,     \* TRUE once Agent.shutdown is closed
  requests,     \* the kinds of HTTP request the client has made
  lastPoll,     \* the response of the last pollForTasks and what it returned
  pingConnected,\* WebSocketClient.connected at the moment the last ping was read
  failures,     \* what has failed in the HTTP agent so far: "heartbeat",
                \* "poll", "result" (a request returned an error), "task"
  basePath,     \* the directory Manager.basePath: for every project name,
                \* whether its directory exists and the files it holds
  created,      \* the projects a CreateProject call returned nil for and
                \* no DeleteProject call has removed since
  listed        \* what the last ListProjects call returned

vars == <<pc, sconn, wsConn, wsConnected, reconnectCh, stopCh, ctxDone,
          timers, opened, closedH, events, task, wire, crashed,
          agConn, agCtxDone, connCancelled, attempts,
          httpVer, registered, shutdown, requests, lastPoll, pingConnected,
          failures, basePath, created, listed>>

\* The fields of the websocket Agent, untouched by the other programs.
agentVars == <<agConn, agCtxDone, connCancelled, attempts>>

\* The state of the HTTP agent, untouched by the websocket programs.
httpVars == <<httpVer, registered, shutdown, requests, lastPoll, failures>>

\* The state of the compose Manager, untouched by the agents.
composeVars == <<basePath, created, listed>>

\* ---------------------------------------------------------- compose Manager
\* The project names and compose file names a caller may put in a
\* ProjectConfig. ProjectOrder is the order os.ReadDir returns the project
\* directories in (sorted by file name).
ProjectOrder == <<"project1", "project2">>
ProjectNames == {ProjectOrder[i] : i \in 1..Len(ProjectOrder)}
DefaultComposeFile   == "docker-compose.yml"
AlternateComposeFile == "compose.yml"
CustomComposeFile    == "docker-compose.prod.yml"

\* ProjectConfig. Content is "" or some YAML; EnvVars is whether the map has
\* entries. The contents of the files play no part in what is listed.
ProjectConfig ==
  [Name : ProjectNames \cup {""},
   ComposeFile : {"", DefaultComposeFile, AlternateComposeFile,
                  CustomComposeFile},
   Content : {"", "yaml"}, EnvVars : BOOLEAN, Override : BOOLEAN]

NoDir == [exists |-> FALSE, files |-> {}]
EmptyBase == [n \in ProjectNames |-> NoDir]
NoListing == [made |-> FALSE, names |-> <<>>, created |-> {}]

\* The state of the agents, untouched by the compose Manager.
agentProgramVars ==
  <<pc, sconn, wsConn, wsConnected, reconnectCh, stopCh, ctxDone, timers,
    opened, closedH, events, task, wire, crashed, agConn, agCtxDone,
    connCancelled, attempts, httpVer, registered, shutdown, requests,
    lastPoll, pingConnected, failures>>

\* ------------------------------------------------------------- goroutines
WSStart == <<"Start", 0>>
HB      == <<"heartbeatLoop", 0>>
ML      == <<"messageLoop", 0>>
RL      == <<"reconnectLoop", 0>>
IHB(h)  == <<"sendHeartbeat", h>>     \* `go ws.sendHeartbeat()` of connect
TASK(t) == <<"executeTask", t>>       \* `go ws.executeTask(task)`

Handles == 1..MaxHandles
Slots   == 1..MaxTasks
WSSenders == {HB, ML} \cup {IHB(h) : h \in Handles} \cup {TASK(t) : t \in Slots}
WSProcs == {WSStart, RL} \cup WSSenders

\* Goroutines of the websocket Agent (agent.go, lines 79-606).
AStart == <<"Agent.Start", 0>>
AHB(k) == <<"Agent.heartbeat", k>>   \* the goroutine of handleConnection
AgentProcs == {AStart} \cup {AHB(k) : k \in Handles}

\* Goroutines of the HTTP agent (agent.go, lines 1-78, and the HTTPClient).
HAStart  == <<"Agent.Start", 1>>
HStart   == <<"HTTPClient.Start", 0>>
HTASK(t) == <<"HTTPClient.executeTask", t>>
HStop(k) == <<"Agent.Stop", k>>      \* a caller inside Agent.Stop
Stops    == 1..MaxStops
HTTPProcs == {HAStart, HStart} \cup {HTASK(t) : t \in Slots}
             \cup {HStop(k) : k \in Stops}

Procs == WSProcs \cup AgentProcs \cup HTTPProcs

NoHandle == 0

\* The kinds of environment events, and the budget they share.
EventKinds == {"dialFail", "frame", "tick", "readErr", "readTimeout",
               "writeErr", "cancel"}
EventCount ==
  events["dialFail"] + events["frame"] + events["tick"] + events["readErr"]
  + events["readTimeout"] + events["writeErr"] + events["cancel"]
Event(kind) ==
  /\ EventCount < MaxEvents
  /\ events' = [events EXCEPT ![kind] = @ + 1]
OpenHandles == (1..opened) \ closedH

\* ------------------------------------------------------------ Go values
NilVal == [kind |-> "nil", key |-> "", val |-> ""]
MapVal(k, v) == [kind |-> "map", key |-> k, val |-> v]
ScalarVal(v) == [kind |-> "scalar", key |-> "", val |-> v]
NoErr == ""

\* An HTTP response: the status code (0: the request failed in transport)
\* and the body as a sequence of tokens.
Response(st, b) == [status |-> st, body |-> b]

\* lastPoll before any poll.
NoPoll == [made |-> FALSE, resp |-> Response(0, <<>>), err |-> <<>>,
           started |-> 0, reqErr |-> <<>>]

\* ------------------------------------------------------ tasks.Manager
\* The task types of the switch in Manager.ExecuteTask.
Registered ==
  {"docker_command", "container_start", "container_stop", "container_restart",
   "container_list", "container_remove", "container_logs", "image_pull",
   "image_list", "system_info", "metrics", "compose_up", "compose_down",
   "compose_ps", "compose_logs", "compose_deploy", "compose_create_project",
   "compose_update_project", "compose_delete_project", "compose_list_projects"}

\* What the docker operation behind a handler does in one call. The
\* records below carry, next to the two values a handler returns, whether a
\* handler ran (`invoked`) and whether its docker operation failed
\* (`failed`).
Behaviours == {"ok", "fail", "panic"}

\* The commands a controller sends in the model: two registered types and
\* one that is not in the switch.
Commands == {"container_start", "image_pull", "bogus"}
TaskIds  == {"t1"}

\* Manager.executeContainerStart: the docker client's result, or its error.
executeContainerStart(beh) ==
  IF beh = "ok"
  THEN [result |-> MapVal("status", "started"), err |-> NoErr,
        invoked |-> TRUE, failed |-> FALSE]
  ELSE [result |-> NilVal, err |-> "docker start failed",
        invoked |-> TRUE, failed |-> TRUE]

\* Manager.executeImagePull: a failed pull is returned as a result map with
\* a nil error.
executeImagePull(beh) ==
  IF beh = "ok"
  THEN [result |-> MapVal("status", "completed"), err |-> NoErr,
        invoked |-> TRUE, failed |-> FALSE]
  ELSE [result |-> MapVal("status", "failed"), err |-> NoErr,
        invoked |-> TRUE, failed |-> TRUE]

\* ExecuteTask with the default case of the switch lost: an unknown type
\* falls into a handler.
ExecuteTaskNoDefault(taskType, beh) ==
  IF taskType = "image_pull" THEN executeImagePull(beh)
  ELSE executeContainerStart(beh)

\* Manager.ExecuteTask: (result, error) of one call that returns; `invoked`
\* tells whether a handler ran.
ExecuteTask(taskType, beh) ==
  CASE taskType = "container_start" -> executeContainerStart(beh)
    [] taskType = "image_pull"      -> executeImagePull(beh)
    [] taskType \in Registered      -> executeContainerStart(beh)
    [] OTHER -> [result |-> NilVal,
                 err |-> "unknown task type: " \o taskType,
                 invoked |-> FALSE, failed |-> FALSE]

\* A handler panics only if one is invoked.
Panics(taskType, beh) == taskType \in Registered /\ beh = "panic"

\* ---------------------------------------------------- task outcomes
NoTask == [id |-> "", type |-> "", via |-> "", state |-> "none",
           status |-> "", result |-> NilVal, keys |-> {}, error |-> NoErr,
           invoked |-> FALSE,
           \* what the `data` object of the frame that brought the task held
           dataId |-> "", dataCmd |-> "",
           \* calls of ExecuteTask and calls that report the outcome, so far
           runs |-> 0, sends |-> 0,
           \* the value ExecuteTask returned, and whether the docker
           \* operation behind the handler failed
           ret |-> NilVal, opFailed |-> FALSE]

\* WebSocketClient.executeTask, lines 217-250: the task_result data built
\* from ExecuteTask's return values.
wsTaskResult(t, r) ==
  LET resultMap == IF r.result.kind = "nil" THEN NilVal
                   ELSE IF r.result.kind = "map" THEN r.result
                   ELSE MapVal("data", r.result.val)
  IN [t EXCEPT !.state = "executed",
               !.status = IF r.err # NoErr THEN "failed" ELSE "completed",
               !.result = resultMap,
               !.error = r.err,
               !.keys = {"task_id", "status", "result"}
                        \cup (IF r.err # NoErr THEN {"error"} ELSE {}),
               !.invoked = r.invoked,
               !.ret = r.result,
               !.opFailed = r.failed]

\* ================================================== WebSocketClient
\* A sendMessage whose caller would call it again: what executeTask does not
\* do.
RetRetry(g) == IF g = HB THEN "wait" ELSE IF g = ML THEN "top" ELSE "smCheck"

\* Where a goroutine continues when sendMessage or handleDisconnection
\* returns to it.
Ret(g) == IF g = HB THEN "wait" ELSE IF g = ML THEN "top" ELSE "done"

msgType(g) ==
  IF g = ML THEN "pong" ELSE IF g[1] = "executeTask" THEN "task_result"
  ELSE "heartbeat"

msgTask(g) == IF g[1] = "executeTask" THEN task[g[2]] ELSE NoTask

\* Goroutines inside conn.WriteJSON on handle h.
Writers(h) == {g \in WSSenders : pc[g] = "smWrite" /\ sconn[g] = h}

isConnected == wsConnected

\* select cases ctx.Done() and stopCh of the three loops.
Cancelled == ctxDone \/ stopCh

\* WebSocketClient.connect, lines 94-105, when the dial succeeds: the new
\* handle is stored and connected is set. (The caller's step also spawns
\* the first heartbeat, line 110.)
connect ==
  /\ opened < MaxHandles
  /\ opened' = opened + 1
  /\ wsConn' = opened + 1
  /\ wsConnected' = TRUE

\* A disconnect that closes the handle but leaves the field and the flag
\* as they were.
disconnectKeepFlag ==
  /\ closedH' = IF wsConn # NoHandle THEN closedH \cup {wsConn} ELSE closedH
  /\ UNCHANGED <<wsConn, wsConnected>>

\* WebSocketClient.disconnect: close and forget the stored handle.
disconnect ==
  /\ closedH' = IF wsConn # NoHandle THEN closedH \cup {wsConn} ELSE closedH
  /\ wsConn' = NoHandle
  /\ wsConnected' = FALSE

\* Start, line 57: the initial connect begins to dial.
WSStartDial ==
  /\ ~crashed /\ pc[WSStart] = "init"
  /\ pc' = [pc EXCEPT ![WSStart] = "dial"]
  /\ UNCHANGED <<sconn, wsConn, wsConnected, reconnectCh, stopCh, ctxDone,
                 timers, opened, closedH, task, wire, crashed, events,
                 pingConnected, agentVars, httpVars, composeVars>>

\* Start, lines 57-64: the initial connect succeeded; the three loops start.
WSStartConnected ==
  /\ ~crashed /\ pc[WSStart] = "dial"
  /\ connect
  /\ pc' = [pc EXCEPT ![WSStart] = "wait", ![IHB(opened + 1)] = "smCheck",
                      ![HB] = "wait", ![ML] = "top", ![RL] = "wait"]
  /\ UNCHANGED <<sconn, reconnectCh, stopCh, ctxDone, timers, closedH, task,
                 wire, crashed, events,
                 pingConnected, agentVars, httpVars, composeVars>>

\* Start, lines 57-59: the initial connect failed; Start returns the error.
WSStartConnectFailed ==
  /\ ~crashed /\ pc[WSStart] = "dial"
  /\ Event("dialFail")
  /\ pc' = [pc EXCEPT ![WSStart] = "returnedErr"]
  /\ UNCHANGED <<sconn, wsConn, wsConnected, reconnectCh, stopCh, ctxDone,
                 timers, opened, closedH, task, wire, crashed,
                 pingConnected, agentVars, httpVars, composeVars>>

\* The caller of Start cancels the context.
CtxCancel ==
  /\ ~crashed /\ ~ctxDone
  /\ Event("cancel")
  /\ ctxDone' = TRUE
  /\ UNCHANGED <<pc, sconn, wsConn, wsConnected, reconnectCh, stopCh, timers,
                 opened, closedH, task, wire, crashed,
                 pingConnected, agentVars, httpVars, composeVars>>

\* Start, lines 67-70: ctx.Done() is received and stopCh is closed.
WSStartStop ==
  /\ ~crashed /\ pc[WSStart] = "wait" /\ ctxDone
  /\ stopCh' = TRUE
  /\ pc' = [pc EXCEPT ![WSStart] = "closing"]
  /\ UNCHANGED <<sconn, wsConn, wsConnected, reconnectCh, ctxDone, timers,
                 opened, closedH, task, wire, crashed, events,
                 pingConnected, agentVars, httpVars, composeVars>>

\* Start, lines 71-72: disconnect and return nil.
WSStartDisconnect ==
  /\ ~crashed /\ pc[WSStart] = "closing"
  /\ disconnect
  /\ pc' = [pc EXCEPT ![WSStart] = "returnedNil"]
  /\ UNCHANGED <<sconn, reconnectCh, stopCh, ctxDone, timers, opened, task,
                 wire, crashed, events,
                 pingConnected, agentVars, httpVars, composeVars>>

\* ------------------------------------------------ sendMessage
\* sendMessage, lines 316-319: return unless connected.
sendMessageCheck(g) ==
  /\ ~crashed /\ pc[g] = "smCheck"
  /\ pc' = [pc EXCEPT ![g] = IF isConnected THEN "smLoad" ELSE Ret(g)]
  /\ task' = IF g[1] = "executeTask"
             THEN [task EXCEPT ![g[2]].sends = @ + 1]
             ELSE task
  /\ UNCHANGED <<sconn, wsConn, wsConnected, reconnectCh, stopCh, ctxDone,
                 timers, opened, closedH, wire, crashed, events,
                 pingConnected, agentVars, httpVars, composeVars>>

\* sendMessage, lines 327-335: copy ws.conn under the read lock, return if
\* it is nil, else enter conn.WriteJSON with no lock held. A second writer
\* on the same handle is a data race in the websocket library, which either
\* panics ("concurrent write to websocket connection") or goes unnoticed.
sendMessageWrite(g) ==
  /\ ~crashed /\ pc[g] = "smLoad"
  /\ IF wsConn = NoHandle
     THEN /\ pc' = [pc EXCEPT ![g] = Ret(g)]
          /\ UNCHANGED <<sconn, crashed, events>>
     ELSE /\ pc' = [pc EXCEPT ![g] = "smWrite"]
          /\ sconn' = [sconn EXCEPT ![g] = wsConn]
          /\ \E panic \in IF Writers(wsConn) # {} THEN BOOLEAN ELSE {FALSE} :
               crashed' = panic
  /\ UNCHANGED <<wsConn, wsConnected, reconnectCh, stopCh, ctxDone, timers,
                 opened, closedH, task, wire, events,
                 pingConnected, agentVars, httpVars, composeVars>>

\* sendMessage, lines 335-340: WriteJSON returns. It fails on a handle the
\* agent closed and may fail on an open one.
sendMessageWriteEnd(g) ==
  /\ ~crashed /\ pc[g] = "smWrite"
  /\ \/ /\ sconn[g] \in OpenHandles
        /\ wire' = IF msgType(g) = "task_result"
                   THEN wire \cup {[conn |-> sconn[g], data |-> msgTask(g)]}
                   ELSE wire
        /\ pc' = [pc EXCEPT ![g] = Ret(g)]
        /\ UNCHANGED events
     \/ /\ sconn[g] \in OpenHandles
        /\ Event("writeErr")
        /\ pc' = [pc EXCEPT ![g] = "hdFlag"]
        /\ UNCHANGED wire
     \/ /\ sconn[g] \notin OpenHandles
        /\ pc' = [pc EXCEPT ![g] = "hdFlag"]
        /\ UNCHANGED <<wire, events>>
  /\ UNCHANGED <<sconn, wsConn, wsConnected, reconnectCh, stopCh, ctxDone,
                 timers, opened, closedH, task, crashed,
                 pingConnected, agentVars, httpVars, composeVars>>

\* handleDisconnection, lines 346-348: clear the connected flag.
handleDisconnectionFlag(g) ==
  /\ ~crashed /\ pc[g] = "hdFlag"
  /\ wsConnected' = FALSE
  /\ pc' = [pc EXCEPT ![g] = "hdSignal"]
  /\ UNCHANGED <<sconn, wsConn, reconnectCh, stopCh, ctxDone, timers, opened,
                 closedH, task, wire, crashed, events,
                 pingConnected, agentVars, httpVars, composeVars>>

\* handleDisconnection, lines 351-355: non-blocking send on reconnectCh,
\* whose capacity is 1.
handleDisconnectionSignal(g) ==
  /\ ~crashed /\ pc[g] = "hdSignal"
  /\ reconnectCh' = 1
  /\ pc' = [pc EXCEPT ![g] = Ret(g)]
  /\ UNCHANGED <<sconn, wsConn, wsConnected, stopCh, ctxDone, timers, opened,
                 closedH, task, wire, crashed, events,
                 pingConnected, agentVars, httpVars, composeVars>>

\* ------------------------------------------------ heartbeatLoop
\* heartbeatLoop, lines 262-265.
heartbeatLoopExit ==
  /\ ~crashed /\ pc[HB] = "wait" /\ Cancelled
  /\ pc' = [pc EXCEPT ![HB] = "exited"]
  /\ UNCHANGED <<sconn, wsConn, wsConnected, reconnectCh, stopCh, ctxDone,
                 timers, opened, closedH, task, wire, crashed, events,
                 pingConnected, agentVars, httpVars, composeVars>>

\* heartbeatLoop, lines 266-269: a tick; sendHeartbeat (lines 274-312)
\* collects the snapshot and calls sendMessage. A tick while not connected
\* changes nothing.
heartbeatLoopTick ==
  /\ ~crashed /\ pc[HB] = "wait"
  /\ isConnected
  /\ Event("tick")
  /\ pc' = [pc EXCEPT ![HB] = "smCheck"]
  /\ UNCHANGED <<sconn, wsConn, wsConnected, reconnectCh, stopCh, ctxDone,
                 timers, opened, closedH, task, wire, crashed,
                 pingConnected, agentVars, httpVars, composeVars>>

\* ------------------------------------------------ inbound frames
\* A frame as the controller sends it. handleMessage reads `type`;
\* handleTaskMessage reads the top-level task_id and command (WSTaskMessage),
\* never the ones inside `data`.
Frame(ty, id, cmd, did, dcmd) ==
  [type |-> ty, task_id |-> id, command |-> cmd,
   data_task_id |-> did, data_command |-> dcmd]

Frames ==
  {Frame("ping", "", "", "", ""), Frame("registered", "", "", "", "")}
  \cup {Frame("task", id, cmd, "", "") : id \in TaskIds, cmd \in Commands}
  \cup {Frame("task", "", "", id, "container_start") : id \in TaskIds}

FreeSlots == {t \in Slots : task[t].state = "none"}

\* ------------------------------------------------ messageLoop
\* messageLoop, lines 135-138.
messageLoopExit ==
  /\ ~crashed /\ pc[ML] = "top" /\ Cancelled
  /\ pc' = [pc EXCEPT ![ML] = "exited"]
  /\ UNCHANGED <<sconn, wsConn, wsConnected, reconnectCh, stopCh, ctxDone,
                 timers, opened, closedH, task, wire, crashed, events,
                 pingConnected, agentVars, httpVars, composeVars>>

\* messageLoop, lines 139-143: the default case; while not connected the
\* loop sleeps and comes back here.
messageLoopCheck ==
  /\ ~crashed /\ pc[ML] = "top" /\ ~Cancelled
  /\ isConnected
  /\ pc' = [pc EXCEPT ![ML] = "mlLoad"]
  /\ UNCHANGED <<sconn, wsConn, wsConnected, reconnectCh, stopCh, ctxDone,
                 timers, opened, closedH, task, wire, crashed, events,
                 pingConnected, agentVars, httpVars, composeVars>>

\* messageLoop, lines 145-154: copy ws.conn and block in ReadJSON.
messageLoopLoad ==
  /\ ~crashed /\ pc[ML] = "mlLoad"
  /\ IF wsConn = NoHandle
     THEN /\ pc' = [pc EXCEPT ![ML] = "top"]
          /\ UNCHANGED sconn
     ELSE /\ pc' = [pc EXCEPT ![ML] = "reading"]
          /\ sconn' = [sconn EXCEPT ![ML] = wsConn]
  /\ UNCHANGED <<wsConn, wsConnected, reconnectCh, stopCh, ctxDone, timers,
                 opened, closedH, task, wire, crashed, events,
                 pingConnected, agentVars, httpVars, composeVars>>

\* messageLoop, lines 154-158: ReadJSON fails (always so on a handle the
\* agent closed; on an open one with a network error or with a timeout);
\* whatever the error is, handleDisconnection is entered.
messageLoopReadError ==
  /\ ~crashed /\ pc[ML] = "reading"
  /\ IF sconn[ML] \in OpenHandles
     THEN Event("readErr") \/ Event("readTimeout")
     ELSE UNCHANGED events
  /\ pc' = [pc EXCEPT ![ML] = "hdFlag"]
  /\ UNCHANGED <<sconn, wsConn, wsConnected, reconnectCh, stopCh, ctxDone,
                 timers, opened, closedH, task, wire, crashed,
                 pingConnected, agentVars, httpVars, composeVars>>

\* handleMessage + handleTaskMessage + handlePing, lines 166-209, on a
\* frame ReadJSON returned: a task frame starts `go ws.executeTask(task)`
\* with ID = task_id and Type = command, a ping enters sendMessage("pong"),
\* any other type is ignored.
handleMessage(f) ==
  CASE f.type = "task" ->
         \E t \in FreeSlots :
           /\ \A u \in FreeSlots : t <= u
           /\ task' = [task EXCEPT ![t] =
                         [NoTask EXCEPT !.id = f.task_id, !.type = f.command,
                                        !.via = "ws", !.state = "received",
                                        !.dataId = f.data_task_id,
                                        !.dataCmd = f.data_command]]
           /\ pc' = [pc EXCEPT ![ML] = "top", ![TASK(t)] = "exec"]
           /\ UNCHANGED pingConnected
    [] f.type = "ping" ->
         /\ pc' = [pc EXCEPT ![ML] = "smCheck"]
         /\ pingConnected' = wsConnected
         /\ UNCHANGED task
    [] OTHER ->
         /\ pc' = [pc EXCEPT ![ML] = "top"]
         /\ UNCHANGED <<task, pingConnected>>

\* messageLoop, lines 154-161: ReadJSON returns a frame.
messageLoopRead ==
  /\ ~crashed /\ pc[ML] = "reading"
  /\ sconn[ML] \in OpenHandles
  /\ Event("frame")
  /\ \E f \in Frames : handleMessage(f)
  /\ UNCHANGED <<sconn, wsConn, wsConnected, reconnectCh, stopCh, ctxDone,
                 timers, opened, closedH, wire, crashed,
                 agentVars, httpVars, composeVars>>

\* ------------------------------------------------ executeTask
\* WebSocketClient.executeTask, lines 211-252: ExecuteTask runs (a panic of
\* the handler is not recovered anywhere and ends the process), the
\* task_result is built and sendMessage is entered.
wsExecuteTask(t) ==
  /\ ~crashed /\ pc[TASK(t)] = "exec"
  /\ \E beh \in Behaviours :
       IF Panics(task[t].type, beh)
       THEN /\ crashed' = TRUE
            /\ task' = [task EXCEPT ![t].state = "panicked", ![t].invoked = TRUE,
                                    ![t].runs = @ + 1]
            /\ UNCHANGED pc
       ELSE /\ task' = [task EXCEPT ![t] =
                          [wsTaskResult(task[t], ExecuteTask(task[t].type, beh))
                             EXCEPT !.runs = @ + 1]]
            /\ pc' = [pc EXCEPT ![TASK(t)] = "smCheck"]
            /\ UNCHANGED crashed
  /\ UNCHANGED <<sconn, wsConn, wsConnected, reconnectCh, stopCh, ctxDone,
                 timers, opened, closedH, wire, events,
                 pingConnected, agentVars, httpVars, composeVars>>

\* ------------------------------------------------ reconnectLoop
\* reconnectLoop, lines 361-364.
reconnectLoopExit ==
  /\ ~crashed /\ pc[RL] = "wait" /\ Cancelled
  /\ pc' = [pc EXCEPT ![RL] = "exited"]
  /\ UNCHANGED <<sconn, wsConn, wsConnected, reconnectCh, stopCh, ctxDone,
                 timers, opened, closedH, task, wire, crashed, events,
                 pingConnected, agentVars, httpVars, composeVars>>

\* reconnectLoop, line 365: receive the reconnect signal.
reconnectLoopRecv ==
  /\ ~crashed /\ pc[RL] = "wait" /\ reconnectCh = 1
  /\ reconnectCh' = 0
  /\ pc' = [pc EXCEPT ![RL] = "rlCheck"]
  /\ UNCHANGED <<sconn, wsConn, wsConnected, stopCh, ctxDone, timers, opened,
                 closedH, task, wire, crashed, events,
                 pingConnected, agentVars, httpVars, composeVars>>

\* reconnectLoop, line 366: nothing to do when connected.
reconnectLoopCheck ==
  /\ ~crashed /\ pc[RL] = "rlCheck"
  /\ pc' = [pc EXCEPT ![RL] = IF isConnected THEN "wait" ELSE "rlDisconnect"]
  /\ UNCHANGED <<sconn, wsConn, wsConnected, reconnectCh, stopCh, ctxDone,
                 timers, opened, closedH, task, wire, crashed, events,
                 pingConnected, agentVars, httpVars, composeVars>>

\* reconnectLoop, lines 369-372: disconnect, then sleep ReconnectDelay.
reconnectLoopDisconnect ==
  /\ ~crashed /\ pc[RL] = "rlDisconnect"
  /\ disconnect
  /\ pc' = [pc EXCEPT ![RL] = "rlSleep"]
  /\ UNCHANGED <<sconn, reconnectCh, stopCh, ctxDone, timers, opened, task,
                 wire, crashed, events,
                 pingConnected, agentVars, httpVars, composeVars>>

\* reconnectLoop, line 374: the delay has passed, connect starts to dial.
reconnectLoopDial ==
  /\ ~crashed /\ pc[RL] = "rlSleep"
  /\ pc' = [pc EXCEPT ![RL] = "rlDial"]
  /\ UNCHANGED <<sconn, wsConn, wsConnected, reconnectCh, stopCh, ctxDone,
                 timers, opened, closedH, task, wire, crashed, events,
                 pingConnected, agentVars, httpVars, composeVars>>

\* reconnectLoop, lines 374 and 383-385: connect succeeded.
reconnectLoopConnected ==
  /\ ~crashed /\ pc[RL] = "rlDial"
  /\ connect
  /\ pc' = [pc EXCEPT ![RL] = "wait", ![IHB(opened + 1)] = "smCheck"]
  /\ UNCHANGED <<sconn, reconnectCh, stopCh, ctxDone, timers, closedH, task,
                 wire, crashed, events,
                 pingConnected, agentVars, httpVars, composeVars>>

\* reconnectLoop, lines 374-382: connect failed; a timer is armed that will
\* signal reconnectCh after ReconnectDelay.
reconnectLoopFailed ==
  /\ ~crashed /\ pc[RL] = "rlDial"
  /\ Event("dialFail")
  /\ timers' = timers + 1
  /\ pc' = [pc EXCEPT ![RL] = "wait"]
  /\ UNCHANGED <<sconn, wsConn, wsConnected, reconnectCh, stopCh, ctxDone,
                 opened, closedH, task, wire, crashed,
                 pingConnected, agentVars, httpVars, composeVars>>

\* The time.AfterFunc callback, lines 377-382: non-blocking send on
\* reconnectCh.
reconnectTimerFire ==
  /\ ~crashed /\ timers > 0
  /\ timers' = timers - 1
  /\ reconnectCh' = 1
  /\ UNCHANGED <<pc, sconn, wsConn, wsConnected, stopCh, ctxDone, opened,
                 closedH, task, wire, crashed, events,
                 pingConnected, agentVars, httpVars, composeVars>>

\* ------------------------------------------------ specification
InitWS ==
  /\ pc = [g \in Procs |-> IF g = WSStart THEN "init" ELSE "off"]
  /\ sconn = [g \in Procs |-> NoHandle]
  /\ wsConn = NoHandle
  /\ wsConnected = FALSE
  /\ reconnectCh = 0
  /\ stopCh = FALSE
  /\ ctxDone = FALSE
  /\ timers = 0
  /\ opened = 0
  /\ closedH = {}
  /\ events = [k \in EventKinds |-> 0]
  /\ task = [t \in Slots |-> NoTask]
  /\ wire = {}
  /\ crashed = FALSE
  /\ agConn = NoHandle
  /\ agCtxDone = FALSE
  /\ connCancelled = {}
  /\ attempts = 0
  /\ httpVer = 1
  /\ registered = FALSE
  /\ shutdown = FALSE
  /\ requests = {}
  /\ lastPoll = NoPoll
  /\ pingConnected = FALSE
  /\ failures = {}
  /\ basePath = EmptyBase
  /\ created = {}
  /\ listed = NoListing

NextWS ==
  \/ WSStartDial
  \/ WSStartConnected
  \/ WSStartConnectFailed
  \/ CtxCancel
  \/ WSStartStop
  \/ WSStartDisconnect
  \/ \E g \in WSSenders : sendMessageCheck(g)
  \/ \E g \in WSSenders : sendMessageWrite(g)
  \/ \E g \in WSSenders : sendMessageWriteEnd(g)
  \/ \E g \in WSSenders : handleDisconnectionFlag(g)
  \/ \E g \in WSSenders : handleDisconnectionSignal(g)
  \/ heartbeatLoopExit
  \/ heartbeatLoopTick
  \/ messageLoopExit
  \/ messageLoopCheck
  \/ messageLoopLoad
  \/ messageLoopReadError
  \/ messageLoopRead
  \/ \E t \in Slots : wsExecuteTask(t)
  \/ reconnectLoopExit
  \/ reconnectLoopRecv
  \/ reconnectLoopCheck
  \/ reconnectLoopDisconnect
  \/ reconnectLoopDial
  \/ reconnectLoopConnected
  \/ reconnectLoopFailed
  \/ reconnectTimerFire

SpecWS == InitWS /\ [][NextWS]_vars

\* ================================================== websocket Agent
\* internal/agent/agent.go, lines 79-606: the Agent that keeps its own
\* websocket connection and runs tasks in its read loop.
maxReconnectAttempts == 10

\* The task types of the switch in Agent.executeTask.
AgentRegistered ==
  {"docker_command", "container_start", "container_stop",
   "container_restart", "image_pull", "stack_deploy"}

\* Agent.executeTask: every handler returns a result map, or nil and an
\* error.
agentExecuteTask(taskType, beh) ==
  IF taskType \in AgentRegistered
  THEN IF beh = "ok"
       THEN [result |-> MapVal("status", "done"), err |-> NoErr,
             invoked |-> TRUE, failed |-> FALSE]
       ELSE [result |-> NilVal, err |-> "docker command failed",
             invoked |-> TRUE, failed |-> TRUE]
  ELSE [result |-> NilVal, err |-> "unknown task type: " \o taskType,
        invoked |-> FALSE, failed |-> FALSE]

\* Agent.handleTask + sendTaskResult, lines 358-368 and 522-535: the
\* task_result data, which always carries all four keys.
agentTaskResult(t, r) ==
  [t EXCEPT !.state = "executed",
            !.status = IF r.err # NoErr THEN "failed" ELSE "completed",
            !.result = r.result,
            !.error = r.err,
            !.keys = {"task_id", "status", "result", "error"},
            !.invoked = r.invoked,
            !.ret = r.result,
            !.opFailed = r.failed]

\* Frames the controller sends to the Agent; handleTask reads data.id and
\* data.type.
AgentFrames ==
  {Frame("ping", "", "", "", ""), Frame("registered", "", "", "", "")}
  \cup {Frame("task", "", "", id, cmd) : id \in TaskIds, cmd \in Commands}
  \cup {Frame("task", id, "container_start", "", "") : id \in TaskIds}

\* Goroutines of the Agent inside conn.WriteJSON on handle h.
AgentWriters(h) ==
  {g \in AgentProcs : pc[g] \in {"aRegister", "hcWrite", "hbWrite"}
                      /\ sconn[g] = h}

\* connCtx of connection k is done: connCancel was called or a.ctx is
\* cancelled.
ConnCtxDone(k) == k \in connCancelled \/ agCtxDone

\* Agent.disconnect, lines 569-577.
agentDisconnect ==
  /\ closedH' = IF agConn # NoHandle THEN closedH \cup {agConn} ELSE closedH
  /\ agConn' = NoHandle

wsVars == <<wsConn, wsConnected, reconnectCh, stopCh, timers, pingConnected>>

\* Start, lines 127-130: the context is done; cleanup cancels a.ctx and
\* disconnects, Start returns nil.
AgentStartCleanup ==
  /\ ~crashed /\ pc[AStart] = "aTop" /\ ctxDone
  /\ agCtxDone' = TRUE
  /\ agentDisconnect
  /\ pc' = [pc EXCEPT ![AStart] = "returnedNil"]
  /\ UNCHANGED <<sconn, ctxDone, opened, events, task, wire, crashed,
                 connCancelled, attempts, wsVars, httpVars, composeVars>>

\* Start, lines 131-135: the default case; the attempt is counted and
\* connect starts to dial.
AgentStartAttempt ==
  /\ ~crashed /\ pc[AStart] = "aTop" /\ ~ctxDone
  /\ attempts' = attempts + 1
  /\ pc' = [pc EXCEPT ![AStart] = "aDial"]
  /\ UNCHANGED <<sconn, ctxDone, opened, closedH, events, task, wire, crashed,
                 agConn, agCtxDone, connCancelled, wsVars, httpVars, composeVars>>

\* Start, lines 136-144, after connect returned an error: give up at
\* maxReconnectAttempts, else sleep ReconnectDelay and loop.
AfterConnectError ==
  IF attempts >= maxReconnectAttempts THEN "returnedErr" ELSE "aTop"

\* connect, lines 178-181: the dial fails.
AgentDialFailed ==
  /\ ~crashed /\ pc[AStart] = "aDial"
  /\ pc' = [pc EXCEPT ![AStart] = AfterConnectError]
  /\ UNCHANGED <<sconn, ctxDone, opened, closedH, events, task, wire, crashed,
                 agentVars, wsVars, httpVars, composeVars>>

\* connect, lines 178-200: the dial succeeds, the handle is stored in
\* a.conn and sendMessage enters WriteJSON with the register message.
AgentDialed ==
  /\ ~crashed /\ pc[AStart] = "aDial"
  /\ opened < MaxHandles
  /\ opened' = opened + 1
  /\ agConn' = opened + 1
  /\ sconn' = [sconn EXCEPT ![AStart] = opened + 1]
  /\ pc' = [pc EXCEPT ![AStart] = "aRegister"]
  /\ UNCHANGED <<ctxDone, closedH, events, task, wire, crashed, agCtxDone,
                 connCancelled, attempts, wsVars, httpVars, composeVars>>

\* connect returns nil (line 200); Start resets the counter (148) and
\* handleConnection starts the heartbeat goroutine (lines 204-232).
AgentConnected ==
  /\ ~crashed /\ pc[AStart] = "aRegister"
  /\ attempts' = 0
  /\ pc' = [pc EXCEPT ![AStart] = "hcTop", ![AHB(sconn[AStart])] = "hbWait"]
  /\ UNCHANGED <<sconn, ctxDone, opened, closedH, events, task, wire, crashed,
                 agConn, agCtxDone, connCancelled, wsVars, httpVars, composeVars>>

\* connect, line 200: the register write fails; connect returns the error
\* and leaves the dialled handle in a.conn.
AgentRegisterFailed ==
  /\ ~crashed /\ pc[AStart] = "aRegister"
  /\ Event("writeErr")
  /\ pc' = [pc EXCEPT ![AStart] = AfterConnectError]
  /\ UNCHANGED <<sconn, ctxDone, opened, closedH, task, wire, crashed,
                 agentVars, wsVars, httpVars, composeVars>>

\* handleConnection, lines 237-240: connCtx is done; wait for the
\* heartbeat goroutine, return nil (the deferred connCancel runs).
handleConnectionDone ==
  /\ ~crashed /\ pc[AStart] = "hcTop"
  /\ ConnCtxDone(sconn[AStart])
  /\ pc[AHB(sconn[AStart])] = "exited"
  /\ connCancelled' = connCancelled \cup {sconn[AStart]}
  /\ pc' = [pc EXCEPT ![AStart] = "aDisconnect"]
  /\ UNCHANGED <<sconn, ctxDone, opened, closedH, events, task, wire, crashed,
                 agConn, agCtxDone, attempts, wsVars, httpVars, composeVars>>

\* handleConnection, lines 241-256: the default case; copy a.conn, set the
\* read deadline and block in ReadJSON. a.conn is only cleared by
\* disconnect, which this goroutine calls after handleConnection.
handleConnectionLoad ==
  /\ ~crashed /\ pc[AStart] = "hcTop"
  /\ ~ConnCtxDone(sconn[AStart])
  /\ pc' = [pc EXCEPT ![AStart] = "hcRead"]
  /\ UNCHANGED <<sconn, ctxDone, opened, closedH, events, task, wire, crashed,
                 agentVars, wsVars, httpVars, composeVars>>

\* handleConnection, lines 261-272: ReadJSON fails with a timeout; the
\* loop continues, unless connCtx is done (line 263: return nil).
handleConnectionTimeout ==
  /\ ~crashed /\ pc[AStart] = "hcRead"
  /\ IF ConnCtxDone(sconn[AStart])
     THEN /\ pc' = [pc EXCEPT ![AStart] = "aDisconnect"]
          /\ connCancelled' = connCancelled \cup {sconn[AStart]}
     ELSE /\ pc' = [pc EXCEPT ![AStart] = "hcTop"]
          /\ UNCHANGED connCancelled
  /\ UNCHANGED <<sconn, ctxDone, opened, closedH, events, task, wire, crashed,
                 agConn, agCtxDone, attempts, wsVars, httpVars, composeVars>>

\* handleConnection, lines 261-288: ReadJSON fails with a close frame or a
\* network error; handleConnection returns (nil or the error, Start only
\* logs it) and the deferred connCancel runs.
handleConnectionReadError ==
  /\ ~crashed /\ pc[AStart] = "hcRead"
  /\ Event("readErr")
  /\ connCancelled' = connCancelled \cup {sconn[AStart]}
  /\ pc' = [pc EXCEPT ![AStart] = "aDisconnect"]
  /\ UNCHANGED <<sconn, ctxDone, opened, closedH, task, wire, crashed,
                 agConn, agCtxDone, attempts, wsVars, httpVars, composeVars>>

\* sendMessage, lines 537-555, called from the read loop: copy a.conn,
\* return an error if it is nil or a.ctx is cancelled (handleConnection
\* logs it), else enter WriteJSON with no lock held.
agentSendMessage(g, back, inWrite) ==
  IF agConn = NoHandle \/ agCtxDone
  THEN /\ pc' = [pc EXCEPT ![g] = back]
       /\ UNCHANGED <<sconn, crashed>>
  ELSE /\ pc' = [pc EXCEPT ![g] = inWrite]
       /\ sconn' = [sconn EXCEPT ![g] = agConn]
       /\ \E panic \in IF AgentWriters(agConn) # {} THEN BOOLEAN ELSE {FALSE} :
            crashed' = panic

\* Agent.handleMessage + handleTask, lines 307-358, on a frame ReadJSON
\* returned. handleTask calls a.executeTask itself: the task runs in the
\* read loop.
agentHandleMessage(f) ==
  CASE f.type = "task" /\ f.data_task_id # "" ->
         \E t \in FreeSlots :
           /\ \A u \in FreeSlots : t <= u
           /\ task' = [task EXCEPT ![t] =
                  [NoTask EXCEPT !.id = f.data_task_id,
                                 !.type = f.data_command, !.via = "agent",
                                 !.state = "received",
                                 !.dataId = f.data_task_id,
                                 !.dataCmd = f.data_command]]
           /\ pc' = [pc EXCEPT ![AStart] = "hcExec"]
           /\ UNCHANGED <<sconn, crashed>>
    [] f.type = "ping" ->
         /\ agentSendMessage(AStart, "hcTop", "hcWrite")
         /\ UNCHANGED task
    [] OTHER ->
         /\ pc' = [pc EXCEPT ![AStart] = "hcTop"]
         /\ UNCHANGED <<task, sconn, crashed>>

\* handleConnection, lines 256-293: ReadJSON returns a frame.
handleConnectionRead ==
  /\ ~crashed /\ pc[AStart] = "hcRead"
  /\ Event("frame")
  /\ \E f \in AgentFrames : agentHandleMessage(f)
  /\ UNCHANGED <<ctxDone, opened, closedH, wire, agentVars, wsVars, httpVars, composeVars>>

\* The task the read loop is running or whose result it is writing, if
\* any.
AgentTaskIn(st) == {t \in Slots : task[t].via = "agent" /\ task[t].state = st}
agentMsgTask ==
  IF AgentTaskIn("executed") = {} THEN NoTask
  ELSE task[CHOOSE t \in AgentTaskIn("executed") : TRUE]

\* Agent.handleTask, lines 358-368: a.executeTask returns; the result is
\* built and sendTaskResult enters sendMessage. The outcome is dropped if
\* sendMessage refuses to write.
agentHandleTask ==
  /\ ~crashed /\ pc[AStart] = "hcExec"
  /\ \E t \in AgentTaskIn("received"), beh \in {"ok", "fail"} :
       task' = [task EXCEPT ![t] =
                 [agentTaskResult(task[t], agentExecuteTask(task[t].type, beh))
                    EXCEPT !.runs = @ + 1, !.sends = @ + 1,
                           !.state = IF agConn = NoHandle \/ agCtxDone
                                     THEN "dropped" ELSE "executed"]]
  /\ agentSendMessage(AStart, "hcTop", "hcWrite")
  /\ UNCHANGED <<ctxDone, opened, closedH, events, wire, agentVars, wsVars,
                 httpVars, composeVars>>

\* sendMessage, lines 555-566, in the read loop: WriteJSON returns; an
\* error goes back to handleConnection, which logs it and reads on.
handleConnectionWriteEnd ==
  /\ ~crashed /\ pc[AStart] = "hcWrite"
  /\ \/ /\ wire' = IF agentMsgTask # NoTask
                   THEN wire \cup {[conn |-> sconn[AStart], data |-> agentMsgTask]}
                   ELSE wire
        /\ task' = [t \in Slots |->
                     IF t \in AgentTaskIn("executed")
                     THEN [task[t] EXCEPT !.state = "sent"] ELSE task[t]]
        /\ UNCHANGED events
     \/ /\ Event("writeErr")
        /\ task' = [t \in Slots |->
                     IF t \in AgentTaskIn("executed")
                     THEN [task[t] EXCEPT !.state = "dropped"] ELSE task[t]]
        /\ UNCHANGED wire
  /\ pc' = [pc EXCEPT ![AStart] = "hcTop"]
  /\ UNCHANGED <<sconn, ctxDone, opened, closedH, crashed,
                 agentVars, wsVars, httpVars, composeVars>>

\* Start, lines 154-159: disconnect closes a.conn; after ReconnectDelay the
\* loop starts over.
AgentStartDisconnect ==
  /\ ~crashed /\ pc[AStart] = "aDisconnect"
  /\ agentDisconnect
  /\ pc' = [pc EXCEPT ![AStart] = "aTop"]
  /\ UNCHANGED <<sconn, ctxDone, opened, events, task, wire, crashed,
                 agCtxDone, connCancelled, attempts, wsVars, httpVars, composeVars>>

\* The heartbeat goroutine, lines 219-221: connCtx is done.
agentHeartbeatExit(k) ==
  /\ ~crashed /\ pc[AHB(k)] = "hbWait"
  /\ ConnCtxDone(k)
  /\ pc' = [pc EXCEPT ![AHB(k)] = "exited"]
  /\ UNCHANGED <<sconn, ctxDone, opened, closedH, events, task, wire, crashed,
                 agentVars, wsVars, httpVars, composeVars>>

\* The heartbeat goroutine, lines 222-228: a tick; sendHeartbeat enters
\* sendMessage. An error from sendMessage cancels connCtx and ends the
\* goroutine.
agentHeartbeatTick(k) ==
  /\ ~crashed /\ pc[AHB(k)] = "hbWait"
  /\ Event("tick")
  /\ agentSendMessage(AHB(k), "exited", "hbWrite")
  /\ connCancelled' = IF agConn = NoHandle \/ agCtxDone
                      THEN connCancelled \cup {k} ELSE connCancelled
  /\ UNCHANGED <<ctxDone, opened, closedH, task, wire, agConn, agCtxDone,
                 attempts, wsVars, httpVars, composeVars>>

\* sendMessage, lines 555-566, in the heartbeat goroutine: WriteJSON
\* returns. It fails on a handle the agent closed and may fail on an open
\* one.
agentHeartbeatWriteEnd(k) ==
  /\ ~crashed /\ pc[AHB(k)] = "hbWrite"
  /\ \/ /\ sconn[AHB(k)] \in OpenHandles
        /\ pc' = [pc EXCEPT ![AHB(k)] = "hbWait"]
        /\ UNCHANGED <<events, connCancelled>>
     \/ /\ sconn[AHB(k)] \in OpenHandles
        /\ Event("writeErr")
        /\ connCancelled' = connCancelled \cup {k}
        /\ pc' = [pc EXCEPT ![AHB(k)] = "exited"]
     \/ /\ sconn[AHB(k)] \notin OpenHandles
        /\ connCancelled' = connCancelled \cup {k}
        /\ pc' = [pc EXCEPT ![AHB(k)] = "exited"]
        /\ UNCHANGED events
  /\ UNCHANGED <<sconn, ctxDone, opened, closedH, task, wire, crashed,
                 agConn, agCtxDone, attempts, wsVars, httpVars, composeVars>>

InitAgent ==
  /\ pc = [g \in Procs |-> IF g = AStart THEN "aTop" ELSE "off"]
  /\ sconn = [g \in Procs |-> NoHandle]
  /\ wsConn = NoHandle
  /\ wsConnected = FALSE
  /\ reconnectCh = 0
  /\ stopCh = FALSE
  /\ ctxDone = FALSE
  /\ timers = 0
  /\ opened = 0
  /\ closedH = {}
  /\ events = [k \in EventKinds |-> 0]
  /\ task = [t \in Slots |-> NoTask]
  /\ wire = {}
  /\ crashed = FALSE
  /\ agConn = NoHandle
  /\ agCtxDone = FALSE
  /\ connCancelled = {}
  /\ attempts = 0
  /\ httpVer = 1
  /\ registered = FALSE
  /\ shutdown = FALSE
  /\ requests = {}
  /\ lastPoll = NoPoll
  /\ pingConnected = FALSE
  /\ failures = {}
  /\ basePath = EmptyBase
  /\ created = {}
  /\ listed = NoListing

NextAgent ==
  \/ CtxCancel
  \/ AgentStartCleanup
  \/ AgentStartAttempt
  \/ AgentDialFailed
  \/ AgentDialed
  \/ AgentConnected
  \/ AgentRegisterFailed
  \/ handleConnectionDone
  \/ handleConnectionLoad
  \/ handleConnectionTimeout
  \/ handleConnectionReadError
  \/ handleConnectionRead
  \/ agentHandleTask
  \/ handleConnectionWriteEnd
  \/ AgentStartDisconnect
  \/ \E k \in Handles : agentHeartbeatExit(k)
  \/ \E k \in Handles : agentHeartbeatTick(k)
  \/ \E k \in Handles : agentHeartbeatWriteEnd(k)

SpecAgent == InitAgent /\ [][NextAgent]_vars

\* The steps of the goroutine that runs Agent.Start (connect,
\* handleConnection and all they call).
AgentStartStep ==
  \/ AgentStartCleanup
  \/ AgentStartAttempt
  \/ AgentDialFailed
  \/ AgentDialed
  \/ AgentConnected
  \/ AgentRegisterFailed
  \/ handleConnectionDone
  \/ handleConnectionLoad
  \/ handleConnectionTimeout
  \/ handleConnectionReadError
  \/ handleConnectionRead
  \/ agentHandleTask
  \/ handleConnectionWriteEnd
  \/ AgentStartDisconnect

\* The same program with the scheduler's guarantees: the goroutine of Start
\* and every heartbeat goroutine keep taking steps while they can (a read
\* returns at its 5 s deadline at the latest, lines 251-253; a write
\* returns). What the controller and the caller of Start do is free.
SpecAgentLive ==
  /\ SpecAgent
  /\ WF_vars(AgentStartStep)
  /\ \A k \in Handles :
       WF_vars(agentHeartbeatExit(k) \/ agentHeartbeatWriteEnd(k))

\* ======================================================= HTTP agent
\* internal/agent/http_client.go (httpVer = 1), its later version
\* (httpVer = 2), and the Agent of agent.go, lines 1-78, that runs it.

\* Status codes the controller may answer with, and resp.Status for each.
Statuses == {200, 204, 302, 404, 500}
StatusText(st) ==
  CASE st = 200 -> "200 OK"
    [] st = 204 -> "204 No Content"
    [] st = 302 -> "302 Found"
    [] st = 404 -> "404 Not Found"
    [] OTHER    -> "500 Internal Server Error"

\* Response bodies, as token sequences. "task" stands for one task object;
\* "success:" and "tasks:" are object keys followed by their value; every
\* other token that is not JSON punctuation is plain text.
EmptyBody     == <<>>
HtmlBody      == <<"<html>">>
TextBody      == <<"invalid character">>
NullBody      == <<"null">>
EmptyListBody == <<"[", "]">>
ListBody      == <<"[", "task", "]">>
CutListBody   == <<"[", "task">>
EmptyObjBody  == <<"{", "success:", "true", "tasks:", "[", "]", "}">>
ObjBody       == <<"{", "success:", "true", "tasks:", "[", "task", "]", "}">>
CutObjBody    == <<"{", "success:", "true", "tasks:", "[">>
FailObjBody   == <<"{", "success:", "false", "}">>
FailListObjBody == <<"{", "success:", "false", "tasks:", "[", "task", "]", "}">>
NoFlagObjBody == <<"{", "tasks:", "[", "task", "]", "}">>
Bodies ==
  {EmptyBody, HtmlBody, TextBody, NullBody, EmptyListBody, ListBody,
   CutListBody, EmptyObjBody, ObjBody, CutObjBody, FailObjBody,
   FailListObjBody, NoFlagObjBody}

Responses == {Response(st, b) : st \in Statuses, b \in Bodies}
TransportFailure == Response(0, <<>>)

\* Error texts, as sequences of fragments; NoError is a nil error.
NoError == <<>>
SyntaxErrorValue == <<"invalid character", "looking for beginning of value">>
SyntaxErrorKey   ==
  <<"invalid character", "looking for beginning of object key string">>
SyntaxErrorAfter == <<"invalid character", "after top-level value">>
SyntaxErrorEOF   == <<"unexpected end of JSON input">>
TypeError(what, target) ==
  <<"json: cannot unmarshal", what, "into Go value of type", target>>

\* strings.Contains(err.Error(), text)
Contains(err, text) == \E i \in 1..Len(err) : err[i] = text

\* encoding/json checkValid: scan one value off the front of s; the result
\* is the error and the rest of the input.
RECURSIVE scanValue(_)
RECURSIVE scanElements(_)
RECURSIVE scanMembers(_)
scanValue(s) ==
  IF s = <<>> THEN [err |-> SyntaxErrorEOF, rest |-> s]
  ELSE CASE Head(s) \in {"null", "true", "false", "task"} ->
              [err |-> NoError, rest |-> Tail(s)]
         [] Head(s) = "[" -> scanElements(Tail(s))
         [] Head(s) = "{" -> scanMembers(Tail(s))
         [] OTHER -> [err |-> SyntaxErrorValue, rest |-> s]

scanElements(s) ==
  IF s = <<>> THEN [err |-> SyntaxErrorEOF, rest |-> s]
  ELSE IF Head(s) = "]" THEN [err |-> NoError, rest |-> Tail(s)]
  ELSE LET r == scanValue(s)
       IN  IF r.err # NoError THEN r ELSE scanElements(r.rest)

scanMembers(s) ==
  IF s = <<>> THEN [err |-> SyntaxErrorEOF, rest |-> s]
  ELSE IF Head(s) = "}" THEN [err |-> NoError, rest |-> Tail(s)]
  ELSE IF Head(s) \notin {"success:", "tasks:"}
       THEN [err |-> SyntaxErrorKey, rest |-> s]
  ELSE LET r == scanValue(Tail(s))
       IN  IF r.err # NoError THEN r ELSE scanMembers(r.rest)

checkValid(body) ==
  LET r == scanValue(body)
  IN  IF r.err # NoError THEN r.err
      ELSE IF r.rest # <<>> THEN SyntaxErrorAfter
      ELSE NoError

\* Number of task objects in a valid body.
CountTasks(body) == Cardinality({i \in 1..Len(body) : body[i] = "task"})

\* The value of key k in a valid object body, "" if the key is absent.
Member(body, k) ==
  IF \E i \in 1..(Len(body) - 1) : body[i] = k
  THEN body[(CHOOSE i \in 1..(Len(body) - 1) : body[i] = k) + 1]
  ELSE ""

\* What a decoded poll response holds: the success flag and the tasks.
Decoded(ok, n) == [success |-> ok, tasks |-> n]

\* json.Unmarshal(body, &tasks) with tasks a []types.TaskRequest
\* (http_client.go, lines 138-141 and 235).
UnmarshalTaskList(body) ==
  LET e == checkValid(body)
  IN  IF e # NoError THEN [err |-> e, val |-> Decoded(TRUE, 0)]
      ELSE CASE Head(body) = "null" -> [err |-> NoError, val |-> Decoded(TRUE, 0)]
             [] Head(body) = "[" ->
                  [err |-> NoError, val |-> Decoded(TRUE, CountTasks(body))]
             [] Head(body) \in {"true", "false"} ->
                  [err |-> TypeError("bool", "[]types.TaskRequest"),
                   val |-> Decoded(TRUE, 0)]
             [] OTHER ->
                  [err |-> TypeError("object", "[]types.TaskRequest"),
                   val |-> Decoded(TRUE, 0)]

\* json.Unmarshal(body, &response) with response a TasksResponse
\* {Success `json:"success"`, Data `json:"tasks"`, Error}.
UnmarshalTasksResponse(body) ==
  LET e == checkValid(body)
  IN  IF e # NoError THEN [err |-> e, val |-> Decoded(FALSE, 0)]
      ELSE CASE Head(body) = "null" -> [err |-> NoError, val |-> Decoded(FALSE, 0)]
             [] Head(body) = "{" ->
                  [err |-> NoError,
                   val |-> Decoded(Member(body, "success:") = "true",
                                   IF Member(body, "tasks:") = "["
                                   THEN CountTasks(body) ELSE 0)]
             [] Head(body) = "task" ->
                  [err |-> NoError, val |-> Decoded(FALSE, 0)]
             [] Head(body) = "[" ->
                  [err |-> TypeError("array", "agent.TasksResponse"),
                   val |-> Decoded(FALSE, 0)]
             [] OTHER ->
                  [err |-> TypeError("bool", "agent.TasksResponse"),
                   val |-> Decoded(FALSE, 0)]

\* The text of a refused connection, as http.Client.Do returns it.
TransportError == <<"dial tcp: connect: connection refused">>

\* fmt.Errorf("HTTP %d: %s - %s", resp.StatusCode, resp.Status, body)
StatusError(resp) == <<"HTTP", StatusText(resp.status), "-">> \o resp.body

\* makeRequest of http_client.go, lines 198-239: any status outside
\* 200..299 is an error; the body is unmarshalled whenever a target is
\* given.
makeRequest1(resp, hasTarget) ==
  IF resp = TransportFailure
  THEN [err |-> TransportError, val |-> Decoded(TRUE, 0)]
  ELSE IF resp.status < 200 \/ resp.status >= 300
  THEN [err |-> StatusError(resp), val |-> Decoded(TRUE, 0)]
  ELSE IF hasTarget THEN UnmarshalTaskList(resp.body)
  ELSE [err |-> NoError, val |-> Decoded(TRUE, 0)]

\* makeRequest of the later version, lines 191-254: a status of 400 or more
\* is an error; the body is unmarshalled when a target is given and the
\* body is not empty; errors are wrapped.
makeRequest2(resp, hasTarget) ==
  IF resp = TransportFailure
  THEN [err |-> <<"request failed:">> \o TransportError,
        val |-> Decoded(FALSE, 0)]
  ELSE IF resp.status >= 400
  THEN [err |-> StatusError(resp), val |-> Decoded(FALSE, 0)]
  ELSE IF hasTarget /\ Len(resp.body) > 0
  THEN LET r == UnmarshalTasksResponse(resp.body)
       IN  IF r.err # NoError
           THEN [err |-> <<"failed to unmarshal response:">> \o r.err,
                 val |-> r.val]
           ELSE r
  ELSE [err |-> NoError, val |-> Decoded(FALSE, 0)]

makeRequest(ver, resp, hasTarget) ==
  IF ver = 1 THEN makeRequest1(resp, hasTarget)
  ELSE makeRequest2(resp, hasTarget)

\* A pollForTasks that would start the listed tasks without looking at the
\* success flag.
pollForTasksIgnoreFlag(ver, resp) ==
  LET r == makeRequest(ver, resp, TRUE)
  IN  IF r.err # NoError
      THEN IF Contains(r.err, "invalid character")
           THEN [err |-> NoError, started |-> 0]
           ELSE [err |-> r.err, started |-> 0]
      ELSE [err |-> NoError, started |-> r.val.tasks]

\* pollForTasks, http_client.go lines 137-158 and later version lines
\* 110-151: the error it returns and the number of executeTask goroutines
\* it starts.
pollForTasks(ver, resp) ==
  LET r == makeRequest(ver, resp, TRUE)
  IN  IF r.err # NoError
      THEN IF Contains(r.err, "invalid character")
           THEN [err |-> NoError, started |-> 0]
           ELSE [err |-> r.err, started |-> 0]
      ELSE IF ver = 2 /\ ~r.val.success
      THEN [err |-> NoError, started |-> 0]
      ELSE [err |-> NoError, started |-> r.val.tasks]

\* HTTPClient.executeTask, lines 160-191: the SubmitTaskResultDto built
\* from ExecuteTask's return values; Result and Error are omitempty.
httpTaskResult(t, r) ==
  LET resultMap == IF r.result.kind = "nil" THEN NilVal
                   ELSE IF r.result.kind = "map" THEN r.result
                   ELSE MapVal("data", r.result.val)
  IN  [t EXCEPT !.state = "executed",
                !.status = IF r.err # NoErr THEN "failed" ELSE "completed",
                !.result = IF r.err # NoErr THEN NilVal ELSE resultMap,
                !.error = r.err,
                !.keys = {"status"}
                         \cup (IF r.err = NoErr /\ resultMap.kind = "map"
                               THEN {"result"} ELSE {})
                         \cup (IF r.err # NoErr THEN {"error"} ELSE {}),
                !.invoked = r.invoked,
                !.ret = r.result,
                !.opFailed = r.failed]

\* A Start that logs the registration error and polls anyway.
AfterRegisterIgnoreError(err) == "polling"

\* HTTPClient.Start, lines 48-52 (later version 296-303): where Start goes
\* with the error registerAgent returned.
AfterRegister(err) == IF err # NoError THEN "returnedErr" ELSE "polling"

\* Agent.Start, lines 47-57: the goroutine that runs httpClient.Start is
\* started; Start blocks on the shutdown channel.
AgentStartLaunch ==
  /\ ~crashed /\ pc[HAStart] = "init"
  /\ pc' = [pc EXCEPT ![HAStart] = "waitShutdown", ![HStart] = "register"]
  /\ UNCHANGED <<sconn, ctxDone, opened, closedH, events, task, wire, crashed,
                 agentVars, wsVars, httpVars, composeVars>>

\* Agent.Stop, lines 70-73: a caller enters Stop and its select finds the
\* shutdown channel closed (Stop returns) or open (the default case).
AgentStopSelect(k) ==
  /\ ~crashed /\ pc[HStop(k)] = "off"
  /\ pc' = [pc EXCEPT ![HStop(k)] = IF shutdown THEN "returned" ELSE "close"]
  /\ UNCHANGED <<sconn, ctxDone, opened, closedH, events, task, wire, crashed,
                 agentVars, wsVars, httpVars, composeVars>>

\* Agent.Stop, lines 74-75: close(a.shutdown). Closing a channel that
\* another caller closed since the select panics ("close of closed
\* channel"); nothing recovers it and the process ends.
AgentStopClose(k) ==
  /\ ~crashed /\ pc[HStop(k)] = "close"
  /\ IF shutdown
     THEN /\ crashed' = TRUE
          /\ pc' = [pc EXCEPT ![HStop(k)] = "panicked"]
          /\ UNCHANGED shutdown
     ELSE /\ shutdown' = TRUE
          /\ pc' = [pc EXCEPT ![HStop(k)] = "returned"]
          /\ UNCHANGED crashed
  /\ UNCHANGED <<sconn, ctxDone, opened, closedH, events, task, wire,
                 agentVars, wsVars, httpVer, registered, requests, lastPoll,
                 failures, composeVars>>

\* Agent.Stop, lines 69-77, called by caller k.
AgentStop(k) == AgentStopSelect(k) \/ AgentStopClose(k)

\* Agent.Start, lines 60-63: the shutdown channel is closed; cancel a.ctx.
AgentStartShutdown ==
  /\ ~crashed /\ pc[HAStart] = "waitShutdown" /\ shutdown
  /\ ctxDone' = TRUE
  /\ pc' = [pc EXCEPT ![HAStart] = "waitGroup"]
  /\ UNCHANGED <<sconn, opened, closedH, events, task, wire, crashed,
                 agentVars, wsVars, httpVars, composeVars>>

\* A goroutine that would reach wg.Done only when httpClient.Start returned
\* nil.
wgDoneOnSuccess == pc[HStart] = "returnedNil"

\* Agent.Start, lines 52-56: the goroutine's deferred a.wg.Done() has run,
\* whatever httpClient.Start returned.
wgDone == pc[HStart] \in {"returnedErr", "returnedNil"}

\* Agent.Start, lines 64-66: wg.Wait returns once the goroutine of
\* httpClient.Start is done; Start returns nil.
AgentStartReturn ==
  /\ ~crashed /\ pc[HAStart] = "waitGroup"
  /\ wgDone
  /\ pc' = [pc EXCEPT ![HAStart] = "returnedNil"]
  /\ UNCHANGED <<sconn, ctxDone, opened, closedH, events, task, wire, crashed,
                 agentVars, wsVars, httpVars, composeVars>>

\* HTTPClient.Start, lines 48-52: registerAgent posts the registration and
\* Start returns its error or enters the polling loop.
HTTPClientRegister ==
  /\ ~crashed /\ pc[HStart] = "register"
  /\ \E resp \in Responses \cup {TransportFailure} :
       LET r == makeRequest(httpVer, resp, FALSE)
       IN  /\ registered' = (r.err = NoError)
           /\ pc' = [pc EXCEPT ![HStart] = AfterRegister(r.err)]
  /\ requests' = requests \cup {"register"}
  /\ UNCHANGED <<sconn, ctxDone, opened, closedH, events, task, wire, crashed,
                 agentVars, wsVars, httpVer, shutdown, lastPoll, failures, composeVars>>

\* Start, lines 60-62 (later version: startPolling, lines 273-275).
HTTPClientStop ==
  /\ ~crashed /\ pc[HStart] = "polling" /\ ctxDone
  /\ pc' = [pc EXCEPT ![HStart] = "returnedNil"]
  /\ UNCHANGED <<sconn, ctxDone, opened, closedH, events, task, wire, crashed,
                 agentVars, wsVars, httpVars, composeVars>>

\* Start, lines 63-67: the ticker fires and sendHeartbeat posts the
\* heartbeat (later version: heartbeatTicker, lines 276-282).
HTTPClientHeartbeatTick ==
  /\ ~crashed /\ pc[HStart] = "polling"
  /\ Event("tick")
  /\ pc' = [pc EXCEPT ![HStart] = "heartbeat"]
  /\ UNCHANGED <<sconn, ctxDone, opened, closedH, task, wire, crashed,
                 agentVars, wsVars, httpVars, composeVars>>

\* A loop that would end when sendHeartbeat returned an error.
AfterHeartbeatAbort(err) ==
  IF err # NoError THEN "returnedErr"
  ELSE IF httpVer = 1 THEN "poll" ELSE "polling"

\* Start, lines 65-69 (later version: startPolling, lines 278-282): the
\* error of sendHeartbeat is only logged. In http_client.go the same ticker
\* case goes on to pollForTasks; in the later version the select is next.
AfterHeartbeat(err) == IF httpVer = 1 THEN "poll" ELSE "polling"

\* sendHeartbeat, lines 95-135: the heartbeat is posted and the controller
\* answers or the request fails.
HTTPClientHeartbeat ==
  /\ ~crashed /\ pc[HStart] = "heartbeat"
  /\ \E resp \in {Response(200, EmptyBody), TransportFailure} :
       LET r == makeRequest(httpVer, resp, FALSE)
       IN  /\ failures' = IF r.err # NoError
                          THEN failures \cup {"heartbeat"} ELSE failures
           /\ pc' = [pc EXCEPT ![HStart] = AfterHeartbeat(r.err)]
  /\ requests' = requests \cup {"heartbeat"}
  /\ UNCHANGED <<sconn, ctxDone, opened, closedH, events, task, wire, crashed,
                 agentVars, wsVars, httpVer, registered, shutdown, lastPoll, composeVars>>

\* startPolling of the later version, lines 283-289: the task ticker fires.
HTTPClientTaskTick ==
  /\ ~crashed /\ pc[HStart] = "polling" /\ httpVer = 2
  /\ Event("tick")
  /\ pc' = [pc EXCEPT ![HStart] = "poll"]
  /\ UNCHANGED <<sconn, ctxDone, opened, closedH, task, wire, crashed,
                 agentVars, wsVars, httpVars, composeVars>>

\* The n free slots with the lowest numbers.
LowestFree(n) == {t \in FreeSlots : Cardinality({u \in FreeSlots : u < t}) < n}

\* pollForTasks: the controller answers the GET, pollForTasks returns, and
\* one executeTask goroutine is started for every task it decoded.
HTTPClientPoll ==
  /\ ~crashed /\ pc[HStart] = "poll"
  /\ \E resp \in Responses \cup {TransportFailure} :
       LET r == pollForTasks(httpVer, resp)
           S == LowestFree(r.started)
       IN  /\ Cardinality(S) = r.started
           /\ lastPoll' = [made |-> TRUE, resp |-> resp, err |-> r.err,
                           started |-> r.started,
                           reqErr |-> makeRequest(httpVer, resp, TRUE).err]
           /\ failures' = IF r.err # NoError
                          THEN failures \cup {"poll"} ELSE failures
           /\ \E cmd \in [S -> Commands], id \in [S -> TaskIds] :
                task' = [t \in Slots |->
                           IF t \in S
                           THEN [NoTask EXCEPT !.id = id[t], !.type = cmd[t],
                                               !.via = "http",
                                               !.state = "received"]
                           ELSE task[t]]
           /\ pc' = [g \in Procs |->
                       IF g = HStart THEN "polling"
                       ELSE IF \E t \in S : g = HTASK(t) THEN "exec"
                       ELSE pc[g]]
  /\ requests' = requests \cup {"poll"}
  /\ UNCHANGED <<sconn, ctxDone, opened, closedH, events, wire, crashed,
                 agentVars, wsVars, httpVer, registered, shutdown, composeVars>>

\* HTTPClient.executeTask, lines 160-191: ExecuteTask runs (a panic of the
\* handler is not recovered anywhere and ends the process) and the result
\* is built.
httpExecuteTask(t) ==
  /\ ~crashed /\ pc[HTASK(t)] = "exec"
  /\ \E beh \in Behaviours :
       IF Panics(task[t].type, beh)
       THEN /\ crashed' = TRUE
            /\ task' = [task EXCEPT ![t].state = "panicked", ![t].invoked = TRUE,
                                    ![t].runs = @ + 1]
            /\ UNCHANGED <<pc, failures>>
       ELSE /\ task' = [task EXCEPT ![t] =
                          [httpTaskResult(task[t], ExecuteTask(task[t].type, beh))
                             EXCEPT !.runs = @ + 1]]
            /\ failures' = IF ExecuteTask(task[t].type, beh).err # NoErr
                           THEN failures \cup {"task"} ELSE failures
            /\ pc' = [pc EXCEPT ![HTASK(t)] = "post"]
            /\ UNCHANGED crashed
  /\ UNCHANGED <<sconn, ctxDone, opened, closedH, events, wire,
                 agentVars, wsVars, httpVer, registered, shutdown, requests,
                 lastPoll, composeVars>>

\* HTTPClient.executeTask, lines 192-195: the result is posted; a failure
\* is only logged.
httpSubmitResult(t) ==
  /\ ~crashed /\ pc[HTASK(t)] = "post"
  /\ task' = [task EXCEPT ![t].sends = @ + 1]
  /\ \E resp \in {Response(200, EmptyBody), TransportFailure} :
       IF makeRequest(httpVer, resp, FALSE).err = NoError
       THEN /\ wire' = wire \cup {[conn |-> NoHandle, data |-> task'[t]]}
            /\ UNCHANGED failures
       ELSE /\ failures' = failures \cup {"result"}
            /\ UNCHANGED wire
  /\ requests' = requests \cup {"result"}
  /\ pc' = [pc EXCEPT ![HTASK(t)] = "done"]
  /\ UNCHANGED <<sconn, ctxDone, opened, closedH, events, crashed,
                 agentVars, wsVars, httpVer, registered, shutdown, lastPoll, composeVars>>

InitHTTP ==
  /\ pc = [g \in Procs |-> IF g = HAStart THEN "init" ELSE "off"]
  /\ sconn = [g \in Procs |-> NoHandle]
  /\ wsConn = NoHandle
  /\ wsConnected = FALSE
  /\ reconnectCh = 0
  /\ stopCh = FALSE
  /\ ctxDone = FALSE
  /\ timers = 0
  /\ opened = 0
  /\ closedH = {}
  /\ events = [k \in EventKinds |-> 0]
  /\ task = [t \in Slots |-> NoTask]
  /\ wire = {}
  /\ crashed = FALSE
  /\ agConn = NoHandle
  /\ agCtxDone = FALSE
  /\ connCancelled = {}
  /\ attempts = 0
  /\ httpVer \in {1, 2}
  /\ registered = FALSE
  /\ shutdown = FALSE
  /\ requests = {}
  /\ lastPoll = NoPoll
  /\ pingConnected = FALSE
  /\ failures = {}
  /\ basePath = EmptyBase
  /\ created = {}
  /\ listed = NoListing

NextHTTP ==
  \/ AgentStartLaunch
  \/ \E k \in Stops : AgentStop(k)
  \/ AgentStartShutdown
  \/ AgentStartReturn
  \/ HTTPClientRegister
  \/ HTTPClientStop
  \/ HTTPClientHeartbeatTick
  \/ HTTPClientHeartbeat
  \/ HTTPClientTaskTick
  \/ HTTPClientPoll
  \/ \E t \in Slots : httpExecuteTask(t)
  \/ \E t \in Slots : httpSubmitResult(t)

SpecHTTP == InitHTTP /\ [][NextHTTP]_vars

\* The same program with the scheduler's guarantees: a goroutine that can
\* take its next step takes it, every HTTP request returns (the client has
\* a 15 s timeout, lines 39-41), and a select that keeps finding ctx.Done()
\* ready among its cases takes that case in the end. The callers of Stop
\* and the controller are not obliged to do anything.
SpecHTTPLive ==
  /\ SpecHTTP
  /\ WF_vars(AgentStartLaunch)
  /\ WF_vars(AgentStartShutdown)
  /\ WF_vars(AgentStartReturn)
  /\ WF_vars(HTTPClientRegister)
  /\ WF_vars(HTTPClientHeartbeat)
  /\ WF_vars(HTTPClientPoll)
  /\ SF_vars(HTTPClientStop)

\* ======================================================= properties
\* C1: a task whose type is not registered invokes no handler, gets a nil
\* result and the error "unknown task type: <type>", is reported with status
\* failed and that error, and its dispatch does not end the process.
C1_UnknownTaskType ==
  /\ \A t \in Slots :
       (task[t].state # "none" /\ task[t].type \notin Registered) =>
         /\ task[t].state # "panicked"
         /\ ~task[t].invoked
         /\ task[t].state = "executed" =>
              /\ task[t].result = NilVal
              /\ task[t].error = "unknown task type: " \o task[t].type
              /\ task[t].status = "failed"
  /\ \A f \in wire :
       f.data.type \notin Registered =>
         /\ f.data.status = "failed"
         /\ "error" \in f.data.keys
         /\ f.data.error = "unknown task type: " \o f.data.type

\* C1 witness: the outcome of a task of type "bogus" went out on the wire.
C1_Witness ==
  \E f \in wire : f.data.type = "bogus" /\ f.data.error = "unknown task type: bogus"

\* C2: a handler that panics still yields an outcome with status failed and
\* the process keeps running.
C2_PanicContained ==
  \A t \in Slots :
    task[t].state = "panicked" => (~crashed /\ task[t].status = "failed")

\* C5: the persistent-transport session never returns an error because a
\* connection attempt failed, the very first attempt included.
C5_NeverGivesUp == pc[WSStart] # "returnedErr"

\* C6: a read error while connected causes exactly one transition to
\* disconnected followed by exactly one reconnect attempt, and no two
\* connection attempts are in progress at once. In a run whose only
\* environment event is one read error, once the reconnect has stored the
\* second handle the session stays connected and the reconnect loop starts
\* no further attempt.
C6_OneReconnectPerReadError ==
  /\ ~(pc[WSStart] = "dial" /\ pc[RL] = "rlDial")
  /\ (events["readErr"] = 1 /\ EventCount = 1 /\ opened = 2) =>
       /\ wsConnected
       /\ pc[RL] \notin {"rlDisconnect", "rlSleep", "rlDial"}

\* C7: at no time are two goroutines inside a write on the same handle.
C7_OneWriter == \A h \in Handles : Cardinality(Writers(h)) <= 1

\* C9: the heartbeat loop never enters a frame write at a moment when the
\* connection state is disconnected.
C9_NoHeartbeatWhileDisconnected ==
  [][(pc[HB] = "smLoad" /\ pc'[HB] = "smWrite") => wsConnected]_vars


\* C8: at most one connection handle is open at any time; a handle that is
\* replaced, or whose connect failed after the dial succeeded, is closed.
C8_OneOpenHandle == Cardinality(OpenHandles) <= 1

\* C3: no heartbeat is sent, no poll is issued and no task is executed
\* unless the registration request returned success before; when the
\* registration fails, HTTPClient.Start returns an error and never polls.
C3_RegistrationFirst ==
  /\ (\/ requests \cap {"heartbeat", "poll", "result"} # {}
      \/ \E t \in Slots : task[t].via = "http"
      \/ pc[HStart] \in {"polling", "heartbeat", "poll", "returnedNil"})
       => registered
  /\ ("register" \in requests /\ ~registered) => pc[HStart] = "returnedErr"

\* C3 witness: the registration request was made and failed, and Start
\* returned the error.
C3_Witness ==
  /\ requests = {"register"} /\ ~registered
  /\ pc[HStart] = "returnedErr"

\* C4: when registration fails, Agent.Start terminates with an error on its
\* own: it is never the case that, the registration having failed, Start
\* has returned nil after a shutdown signal.
C4_StartAborts ==
  ~("register" \in requests /\ ~registered /\ pc[HAStart] = "returnedNil")

\* The bodies that carry no task: empty, not JSON, or the empty task list
\* in the format the client decodes.
NoTasksBody(ver, body) ==
  \/ body = EmptyBody
  \/ checkValid(body) # NoError
  \/ body = (IF ver = 1 THEN EmptyListBody ELSE EmptyObjBody)

\* C10: a poll answered with a 2xx status and a body that is empty, is not
\* JSON or carries an empty task list returns no error and starts no task.
C10_EmptyPollIsNoTasks ==
  (/\ lastPoll.made
   /\ lastPoll.resp.status \in 200..299
   /\ NoTasksBody(httpVer, lastPoll.resp.body))
    => (lastPoll.err = NoError /\ lastPoll.started = 0)

\* C11: a task frame whose data object carries task_id and command is
\* dispatched as a task with that id and that type, and when its handler
\* succeeds the task_result written carries that task_id, status completed
\* and the handler's result.
C11_TaskFromData ==
  /\ \A t \in Slots :
       (task[t].via = "ws" /\ task[t].dataId # "") =>
         (task[t].id = task[t].dataId /\ task[t].type = task[t].dataCmd)
  /\ \A f \in wire :
       (f.data.via = "ws" /\ f.data.dataId # "") =>
         (f.data.id = f.data.dataId /\ f.data.status = "completed")

\* C12: each ping received while connected causes exactly one pong to be
\* written before the read loop processes the next frame. When the ping was
\* read with the connected flag set, the handle it came from is still the
\* current, open handle and no write has failed on the network, the read
\* loop does not return from handlePing to reading without having entered
\* the write of the pong.
C12_PingAnswered ==
  [][(/\ pc[ML] \in {"smCheck", "smLoad"}
      /\ pc'[ML] = "top"
      /\ pingConnected
      /\ events["writeErr"] = 0)
       => ~(wsConn = sconn[ML] /\ wsConn \in OpenHandles)]_vars

\* C13: a task whose handler has not yet returned never blocks the rest of
\* the agent: while it runs, the goroutine that reads inbound frames is in
\* its read loop, not inside the handler.
C13_TaskDoesNotBlock ==
  \A t \in Slots : task[t].state = "received" => pc[AStart] # "hcExec"

C15_OutcomeShape ==
  \A f \in wire :
    /\ f.data.status \in {"completed", "failed"}
    /\ f.data.status = "failed" <=> f.data.error # NoErr
    /\ "error" \in f.data.keys <=> f.data.status = "failed"
    /\ "result" \in f.data.keys <=> f.data.status = "completed"

\* C16: when maxReconnectAttempts consecutive connection attempts have
\* failed, the session is degraded and polls for tasks over HTTP: Start has
\* not returned the error and the HTTP client's loop is running.
C16_FallsBackToPolling ==
  (attempts >= maxReconnectAttempts /\ pc[AStart] # "aDial") =>
    /\ pc[AStart] # "returnedErr"
    /\ pc[HStart] \in {"register", "polling", "heartbeat", "poll"}

\* C17: the outcome of a task that arrived over the websocket is never
\* silently discarded: once its goroutine has ended, the outcome was
\* written to a websocket handle or, with the connection gone, posted over
\* HTTP (a frame whose conn is NoHandle). Stated for runs with no shutdown
\* and no failed write.
C17_OutcomeDelivered ==
  \A t \in Slots :
    (/\ task[t].via = "ws" /\ pc[TASK(t)] = "done"
     /\ events["writeErr"] = 0 /\ ~ctxDone) =>
      \E f \in wire : f.data.id = task[t].id /\ f.data.via = "ws"

\* C18: when Start has returned after a shutdown signal, the heartbeat loop,
\* the message loop and the reconnect loop it started have exited and the
\* connection is closed.
C18_LoopsExited ==
  pc[WSStart] = "returnedNil" =>
    /\ \A g \in {HB, ML, RL} : pc[g] = "exited"
    /\ wsConn = NoHandle /\ OpenHandles = {}

\* C19: when Start has returned after the shutdown signal, in-flight work
\* has been drained: no task handler is still running and no outcome report
\* is still to be posted.
C19_WorkDrained ==
  pc[HAStart] = "returnedNil" =>
    \A t \in Slots : pc[HTASK(t)] \notin {"exec", "post"}

\* C20: once shutdown has been signalled and Start has closed the
\* connection, the session stays disconnected: no step opens a new
\* connection or sets the connected flag.
C20_StaysDisconnected ==
  [][pc[WSStart] = "returnedNil" =>
       (opened' = opened /\ wsConn' = NoHandle /\ ~wsConnected')]_vars

\* C22: Stop is idempotent: any number of calls, in any order and from any
\* callers, closes the shutdown channel exactly once and never panics.
C22_StopIdempotent ==
  \A k \in Stops : pc[HStop(k)] # "panicked"

C23_LoopEndsOnlyOnShutdown ==
  [][(registered /\ pc[HStart] \in {"polling", "heartbeat", "poll"}) =>
       /\ \/ pc'[HStart] \in {"polling", "heartbeat", "poll"}
          \/ ctxDone /\ pc'[HStart] = "returnedNil"
       /\ (httpVer = 1 /\ pc[HStart] = "heartbeat"
             /\ pc'[HStart] # pc[HStart]) => pc'[HStart] = "poll"
       /\ (pc[HStart] = "poll" /\ pc'[HStart] # pc[HStart])
             => pc'[HStart] = "polling"]_vars

\* A heartbeat, a poll, a result delivery and a task have all failed, no
\* shutdown was asked for, and the loop is waiting for its next tick.
C23_Witness ==
  /\ failures = {"heartbeat", "poll", "result", "task"}
  /\ ~shutdown /\ ~ctxDone /\ ~crashed
  /\ pc[HStart] = "polling" /\ events["tick"] = 2

\* C24: an HTTP request of the agent counts as successful only if the
\* response status is 2xx: whenever makeRequest returned no error, the
\* status was in 200..299.
C24_SuccessOnly2xx ==
  (lastPoll.made /\ lastPoll.reqErr = NoError) =>
    (lastPoll.resp.status >= 200 /\ lastPoll.resp.status < 300)

\* C28: pollForTasks returns an error for every response whose status is
\* not 2xx and for every transport failure, whatever the body of the
\* response or the text of the error.
C28_PollErrorOnNon2xx ==
  (lastPoll.made /\ lastPoll.resp.status \notin 200..299) =>
    lastPoll.err # NoError

\* C29: a poll response that is valid JSON with success = false makes
\* pollForTasks start none of the tasks it lists and return no error, and
\* the polling loop waits for its next tick.
C29_FailureFlagNotEscalated ==
  (/\ httpVer = 2 /\ lastPoll.made
   /\ lastPoll.resp.status \in 200..299
   /\ checkValid(lastPoll.resp.body) = NoError
   /\ Member(lastPoll.resp.body, "success:") = "false")
    => /\ lastPoll.err = NoError /\ lastPoll.started = 0
       /\ pc[HStart] \in {"polling", "heartbeat", "poll", "returnedNil"}

\* The poll of a tick was answered 200 with success = false and one task
\* listed; no task was started and the next tick is polling again.
C29_Witness ==
  /\ httpVer = 2 /\ lastPoll.made
  /\ lastPoll.resp = Response(200, FailListObjBody)
  /\ lastPoll.started = 0 /\ lastPoll.err = NoError
  /\ pc[HStart] = "poll" /\ events["tick"] = 2

\* C26: a read timeout on the connection is transient: the step in which a
\* read times out changes neither the connected flag nor the stored handle,
\* closes nothing, signals no reconnect, and leaves the read loop at the top
\* of its loop, about to read again.
C26_TimeoutIsTransient ==
  [][events'["readTimeout"] > events["readTimeout"] =>
       /\ pc'[ML] = "top"
       /\ UNCHANGED <<wsConn, wsConnected, closedH, reconnectCh>>]_vars

\* C27: after the context passed to Start is cancelled, the loops observe
\* the cancellation at their next read timeout or tick and exit, so Start
\* eventually returns, also while the connection stays healthy and idle.
C27_StartReturnsAfterCancel ==
  ctxDone ~> (pc[AStart] \in {"returnedNil", "returnedErr"} \/ crashed)

\* C30: the result placed in a task outcome is the handler's return value
\* unchanged when that value is a map, the map {"data": value} when it is
\* any other non-nil value, and absent when the handler returned nil.
C30_ResultNormalised ==
  \A f \in wire :
    /\ f.data.ret.kind = "map" =>
         ("result" \in f.data.keys /\ f.data.result = f.data.ret)
    /\ f.data.ret.kind = "scalar" =>
         ("result" \in f.data.keys
          /\ f.data.result = MapVal("data", f.data.ret.val))
    /\ f.data.ret.kind = "nil" => "result" \notin f.data.keys

\* ------------------------------------------- compose Manager: operations
\* writeFileIfNotExists on the files of one directory: an error when the
\* file is there and override is false, otherwise the file is written.
writeFileIfNotExists(files, name, override) ==
  IF name \in files /\ ~override
  THEN [err |-> <<"file already exists and override is false">>,
        files |-> files]
  ELSE [err |-> NoError, files |-> files \cup {name}]

\* CreateProject as a function of the directory tree: the error it returns
\* and the tree it leaves. MkdirAll has run before either write is tried,
\* and a compose file written before the .env write fails stays written.
createProject(dirs, config) ==
  IF config.Name = "" THEN [err |-> <<"project name is required">>, dirs |-> dirs]
  ELSE IF config.Content = ""
  THEN [err |-> <<"compose content is required">>, dirs |-> dirs]
  ELSE
    LET composeFile == IF config.ComposeFile = "" THEN DefaultComposeFile
                       ELSE config.ComposeFile
        compose == writeFileIfNotExists(dirs[config.Name].files, composeFile,
                                        config.Override)
        env == IF compose.err = NoError /\ config.EnvVars
               THEN writeFileIfNotExists(compose.files, ".env",
                                         config.Override)
               ELSE compose
    IN [err |-> env.err,
        dirs |-> [dirs EXCEPT ![config.Name] =
                    [exists |-> TRUE, files |-> env.files]]]

\* The entries ListProjects returns, by name: the directories that hold a
\* docker-compose.yml or a compose.yml, in the order of the directory.
listProjects(dirs) ==
  SelectSeq(ProjectOrder,
            LAMBDA n : /\ dirs[n].exists
                       /\ \/ DefaultComposeFile \in dirs[n].files
                          \/ AlternateComposeFile \in dirs[n].files)

ManagerCreateProject(config) ==
  LET r == createProject(basePath, config) IN
  /\ basePath' = r.dirs
  /\ created' = IF r.err = NoError THEN created \cup {config.Name}
                ELSE created
  /\ UNCHANGED <<listed, agentProgramVars>>

ManagerUpdateProject(config) ==
  LET r == createProject(basePath, [config EXCEPT !.Override = TRUE]) IN
  /\ basePath' = r.dirs
  /\ created' = IF r.err = NoError THEN created \cup {config.Name}
                ELSE created
  /\ UNCHANGED <<listed, agentProgramVars>>

ManagerDeleteProject(projectName) ==
  /\ IF projectName = "" \/ ~basePath[projectName].exists
     THEN UNCHANGED <<basePath, created>>
     ELSE /\ basePath' = [basePath EXCEPT ![projectName] = NoDir]
          /\ created' = created \ {projectName}
  /\ UNCHANGED <<listed, agentProgramVars>>

ManagerListProjects ==
  /\ listed' = [made |-> TRUE, names |-> listProjects(basePath),
                created |-> created]
  /\ UNCHANGED <<basePath, created, agentProgramVars>>

InitCompose ==
  /\ pc = [g \in Procs |-> "off"]
  /\ sconn = [g \in Procs |-> NoHandle]
  /\ wsConn = NoHandle
  /\ wsConnected = FALSE
  /\ reconnectCh = 0
  /\ stopCh = FALSE
  /\ ctxDone = FALSE
  /\ timers = 0
  /\ opened = 0
  /\ closedH = {}
  /\ events = [k \in EventKinds |-> 0]
  /\ task = [t \in Slots |-> NoTask]
  /\ wire = {}
  /\ crashed = FALSE
  /\ agConn = NoHandle
  /\ agCtxDone = FALSE
  /\ connCancelled = {}
  /\ attempts = 0
  /\ httpVer = 1
  /\ registered = FALSE
  /\ shutdown = FALSE
  /\ requests = {}
  /\ lastPoll = NoPoll
  /\ pingConnected = FALSE
  /\ failures = {}
  /\ basePath = EmptyBase
  /\ created = {}
  /\ listed = NoListing

NextCompose ==
  \/ \E config \in ProjectConfig : ManagerCreateProject(config)
  \/ \E config \in ProjectConfig : ManagerUpdateProject(config)
  \/ \E projectName \in ProjectNames \cup {""} :
       ManagerDeleteProject(projectName)
  \/ ManagerListProjects

SpecCompose == InitCompose /\ [][NextCompose]_vars

\* C25: ListProjects returns exactly the projects that were created with
\* CreateProject and not deleted since, each of them exactly once, whatever
\* compose file name the project was created with.
C25_ListsCreatedProjects ==
  listed.made =>
    /\ {listed.names[i] : i \in 1..Len(listed.names)} = listed.created
    /\ \A i, j \in 1..Len(listed.names) :
         listed.names[i] = listed.names[j] => i = j

\* C31: a read or write error observed on a handle that a reconnect has
\* already replaced does not mark the new connection as disconnected: when
\* a goroutine whose failed handle is not the stored one runs
\* handleDisconnection, the connected flag keeps its value.
C31_StaleErrorIgnored ==
  [][\A g \in WSSenders \cup {ML} :
       (pc[g] = "hdFlag" /\ pc'[g] = "hdSignal"
        /\ wsConn # NoHandle /\ sconn[g] # wsConn) =>
         wsConnected' = wsConnected]_vars

\* C32: for every task type, when the docker operation behind the handler
\* fails, the outcome reported for the task has status failed; a failed
\* image pull is never reported as completed.
C32_FailureReportedFailed ==
  \A t \in Slots :
    (task[t].opFailed /\ task[t].status # "") => task[t].status = "failed"

\* C33: in the WebSocket client, whenever the connected flag is true the
\* stored connection handle is non-nil and has not been closed by the
\* agent.
C33_ConnectedHasOpenHandle ==
  wsConnected => (wsConn # NoHandle /\ wsConn \notin closedH)

\* The flag is true again on the second handle, after the reconnect loop
\* closed the first one.
C33_Witness ==
  wsConnected /\ wsConn = 2 /\ closedH = {1} /\ pc[RL] = "wait"

====
